---- MODULE Spec2Model ----
(***************************************************************************)
(* Model of mlreco/iotools/collates.py: the VolumeBoundaries helper        *)
(* (volume enumeration, shift table, split / translate / untranslate).     *)
(*                                                                         *)
(* Conventions of the model                                                *)
(*  - Python lists and numpy arrays are TLA+ sequences; a Python index i   *)
(*    is position i+1 of the sequence.  Bin indices, volume indices and    *)
(*    batch ids keep their Python (0-based) values; the permutation        *)
(*    returned by split holds 1-based row positions.                       *)
(*  - Boundaries are Python floats (e.g. 1376.3).  A float f is held as    *)
(*    the integer 2*f (half units), so 1.5 is 3.  Voxel coordinates and    *)
(*    batch ids are integers held as themselves.                           *)
(*  - An element of `definitions` is a record [kind, val]: kind is the     *)
(*    Python type of the element, val its content (<<>> for None).         *)
(***************************************************************************)
EXTENDS Integers, Sequences, FiniteSets, TLC

VARIABLES
    dim,          \* self.dim
    boundaries,   \* self.boundaries (the caller's definitions list, normalised in place)
    combo,        \* self.combo: one row of bin indices per volume
    shifts,       \* self.shifts: per dimension, the shift of each bin (floats)
    pc,           \* "idle", or the method whose call has just ended
    raised,       \* TRUE when that method ended in an AssertionError
    voxels,       \* argument `voxels` of the last call
    volume,       \* argument `volume` (translate, untranslate) or `entry` (virtual_batch_ids)
    masks,        \* split: the boolean mask m built for each volume, in loop order
    new_voxels,   \* returned array (split, translate, untranslate)
    perm,         \* split: returned permutation
    ret,          \* returned value of num_volumes / virtual_batch_ids
    batch,        \* CollateSparse: the caller's batch, a list of per-event dictionaries
    kwargs,       \* the caller's keyword arguments; kwargs.boundaries is the caller's list
    result        \* CollateSparse: the returned dictionary

vars == <<dim, boundaries, combo, shifts, pc, raised, voxels, volume, masks,
          new_voxels, perm, ret, batch, kwargs, result>>

----------------------------------------------------------------------------
(* Bounds of the model *)

MaxDim == 2      \* spatial dimensions: 1..MaxDim
MaxCuts == 2     \* boundaries per dimension, geometry: 1..MaxCuts
MaxRows == 2     \* rows of an array given to split: 0..MaxRows

\* Boundary positions offered to a configuration: 1.0, 1.5 and 2.0 (half units)
CutValues == {2, 3, 4}
\* Boundary lists of the configurations split is called on: one boundary, and
\* two boundaries given in descending order
SplitCutLists == {<<3>>, <<5, 3>>}
\* Voxel coordinates offered to the methods: below and above the boundaries
CoordValues == {1, 2}
\* Original batch ids (event indices) of input rows, and `entry` arguments
BatchIds == {0, 1}

----------------------------------------------------------------------------
(* Python / numpy helpers *)

None == [kind |-> "NoneType", val |-> <<>>]
StrNone == [kind |-> "str", val |-> <<>>]          \* the string 'None'
List(l) == [kind |-> "list", val |-> l]
Float(f) == [kind |-> "float", val |-> <<f>>]      \* a bare number

\* int(f) for a float f: truncation toward zero.
int(f) == IF f >= 0 THEN f \div 2 ELSE -((-f) \div 2)

\* coordinate c (an integer) < float f, and c >= f
Lt(c, f) == 2 * c < f
Ge(c, f) == 2 * c >= f

\* list.sort() on a list of floats: ascending
sort(l) == SortSeq(l, LAMBDA a, b : a < b)

RECURSIVE Prod(_)
Prod(s) == IF s = <<>> THEN 1 ELSE Head(s) * Prod(Tail(s))

Reverse(s) == [i \in 1..Len(s) |-> s[Len(s) + 1 - i]]

\* np.unravel_index in C order: the multi-index (0-based) of flat index r in `shape`
Unravel(r, shape) ==
    [p \in 1..Len(shape) |->
        (r \div Prod(SubSeq(shape, p + 1, Len(shape)))) % shape[p]]

----------------------------------------------------------------------------
(* VolumeBoundaries.__init__ *)

\* The sanity check without its isinstance(..., list) test
SanityCheck_NoTypeCheck(b) ==
    \/ b.kind = "str"
    \/ b.kind = "NoneType"
    \/ Len(b.val) > 0

\* The assertion of the sanity check, for one element of definitions
SanityCheck(b) ==
    \/ b.kind = "str"
    \/ b.kind = "NoneType"
    \/ (b.kind = "list" /\ Len(b.val) > 0)

\* One pass of the sanity loop on element b: 'None' becomes None, a list is sorted
Normalise(b) ==
    IF b.kind = "str" THEN None
    ELSE IF b.kind = "NoneType" THEN b
    ELSE List(sort(b.val))

n_boundaries(bnd) ==
    [n \in 1..Len(bnd) |-> IF bnd[n] # None THEN Len(bnd[n].val) ELSE 0]

\* np.arange(k)
arange(k) == [i \in 1..k |-> i - 1]

\* all_index with the last bin of every dimension left out (arange(n) for arange(n+1))
all_index_NoLastBin(bnd) == [n \in 1..Len(bnd) |-> arange(n_boundaries(bnd)[n])]

\* all_index: for each dimension, its bin indices
all_index(bnd) == [n \in 1..Len(bnd) |-> arange(n_boundaries(bnd)[n] + 1)]

\* np.meshgrid(*xi) with the default indexing='xy': the axis (1-based) of the
\* grids along which input k varies; the first two axes are swapped.
MeshAxis(k, d) ==
    IF d >= 2 /\ k = 1 THEN 2
    ELSE IF d >= 2 /\ k = 2 THEN 1
    ELSE k

MeshShape(xi) == [p \in 1..Len(xi) |-> Len(xi[MeshAxis(p, Len(xi))])]

\* np.array(np.meshgrid(*xi)).T.reshape(-1, d): row r (0-based) is read at the
\* multi-index j of the transposed array; grid k holds there xi[k] at the
\* component of the (reversed) index that lies on the axis of input k.
MeshgridRows(xi) ==
    LET d == Len(xi)
        tshape == Reverse(MeshShape(xi))
    IN  [r1 \in 1..Prod(tshape) |->
            LET j == Unravel(r1 - 1, tshape)
                m == Reverse(j)
            IN  [k \in 1..d |-> xi[k][m[MeshAxis(k, d)] + 1]]]

\* shifts for one dimension
dim_shifts(b) ==
    IF b = None THEN <<0>>
    ELSE [i1 \in 1..Len(b.val) |-> IF i1 - 1 > 0 THEN b.val[i1 - 1] ELSE 0]
         \o <<b.val[Len(b.val)]>>

Shifts(bnd) == [n \in 1..Len(bnd) |-> dim_shifts(bnd[n])]

\* The sanity loop stops at the first element (1-based) the assertion rejects;
\* 0 when it rejects none.
FirstRejected(definitions) ==
    IF \A i \in 1..Len(definitions) : SanityCheck(definitions[i]) THEN 0
    ELSE CHOOSE i \in 1..Len(definitions) :
            /\ ~SanityCheck(definitions[i])
            /\ \A j \in 1..(i - 1) : SanityCheck(definitions[j])

\* VolumeBoundaries(definitions) as a whole.  self.boundaries is the caller's
\* list: the elements before a rejected one are already normalised in it when
\* the assertion raises, and combo and shifts are then never assigned.
VolumeBoundariesInit(definitions) ==
    LET bad == FirstRejected(definitions)
        bnd == [i \in 1..Len(definitions) |->
                  IF bad = 0 \/ i < bad THEN Normalise(definitions[i]) ELSE definitions[i]]
    IN  IF bad # 0
        THEN [raised |-> TRUE, dim |-> Len(definitions), boundaries |-> bnd,
              combo |-> <<>>, shifts |-> <<>>]
        ELSE [raised |-> FALSE, dim |-> Len(definitions), boundaries |-> bnd,
              combo |-> MeshgridRows(all_index(bnd)), shifts |-> Shifts(bnd)]

\* The configurations offered to the constructor.  A list of boundaries holds
\* distinct positions, in any order.
Distinct(l) == \A i, j \in 1..Len(l) : i # j => l[i] # l[j]
CutLists == {l \in UNION {[1..k -> CutValues] : k \in 1..MaxCuts} : Distinct(l)}
DefinitionsOver(lists) ==
    UNION {[1..d -> {None, StrNone} \cup {List(l) : l \in lists}] : d \in 1..MaxDim}
Definitions == DefinitionsOver(SplitCutLists)
GeometryDefinitions == DefinitionsOver(CutLists)
\* With the elements the sanity check is there to reject: an empty list and a
\* bare number
ConstructDefinitions ==
    UNION {[1..d -> {None, StrNone, List(<<>>), Float(3)} \cup {List(l) : l \in CutLists}] :
              d \in 1..MaxDim}

----------------------------------------------------------------------------
(* The methods, as functions of the object's fields.  self is the record    *)
(* [dim, boundaries, combo, shifts].                                       *)

num_volumes(self) == Len(self.combo)

\* virtual_batch_ids offset by the entry alone, not by entry * num_volumes
virtual_batch_ids_NoScale(self, entry) ==
    [i \in 1..Len(self.combo) |-> arange(Len(self.combo))[i] + entry]

virtual_batch_ids(self, entry) ==
    [i \in 1..Len(self.combo) |-> arange(Len(self.combo))[i] + entry * num_volumes(self)]

\* The two assertions of translate and untranslate; coords is a sequence of
\* coordinate tuples.
TranslateAsserts(self, coords, vol) ==
    /\ vol >= 0 /\ vol < num_volumes(self)
    /\ \A r \in 1..Len(coords) : Len(coords[r]) = self.dim

translate(self, coords, vol) ==
    [r \in 1..Len(coords) |->
        [n \in 1..self.dim |->
            coords[r][n] + int(self.shifts[n][self.combo[vol + 1][n] + 1])]]

\* untranslate adding the shifts, as translate does
untranslate_Adds(self, coords, vol) ==
    [r \in 1..Len(coords) |->
        [n \in 1..self.dim |->
            coords[r][n] + int(self.shifts[n][self.combo[vol + 1][n] + 1])]]

untranslate(self, coords, vol) ==
    [r \in 1..Len(coords) |->
        [n \in 1..self.dim |->
            coords[r][n] - int(self.shifts[n][self.combo[vol + 1][n] + 1])]]

\* dim_boundaries with an all-False mask (np.zeros for np.ones) where a
\* dimension has no boundary
dim_boundaries_Zeros(b, i, x) ==
    IF b = None THEN FALSE
    ELSE IF i < Len(b.val) THEN Lt(x, b.val[i + 1])
    ELSE Ge(x, b.val[Len(b.val)])

\* split: all_boundaries[n][i][r], the mask of bin i (0-based) of a dimension
\* with boundaries b, at a row whose coordinate in that dimension is x
dim_boundaries(b, i, x) ==
    IF b = None THEN TRUE
    ELSE IF i < Len(b.val) THEN Lt(x, b.val[i + 1])
    ELSE Ge(x, b.val[Len(b.val)])

\* split: m[r], the mask of volume c (a row of combo) at a row with coordinates x
VolumeMask(self, c, x) ==
    \A n \in 1..self.dim : dim_boundaries(self.boundaries[n], c[n], x[n])

\* split: the loop over volumes, followed for one row (the masked assignments
\* act on each row independently).  b, x: batch id and coordinates of the row;
\* idx: the volume (0-based) of the next iteration; vid, nc: the row's entries
\* of virtual_batch_ids and new_coords before that iteration.
RECURSIVE SplitLoop(_, _, _, _, _, _)
SplitLoop(self, b, x, idx, vid, nc) ==
    IF idx >= Len(self.combo) THEN <<vid>> \o nc
    ELSE
        LET c == self.combo[idx + 1]
        IN  IF VolumeMask(self, c, x)
            THEN SplitLoop(self, b, x, idx + 1,
                           idx + b * num_volumes(self),
                           [n \in 1..self.dim |-> nc[n] - int(self.shifts[n][c[n] + 1])])
            ELSE SplitLoop(self, b, x, idx + 1, vid, nc)

\* lexsort read with the first key as the primary one
LexLess_FirstKeyPrimary(ka, kb) ==
    \E j \in 1..Len(ka) :
        /\ ka[j] < kb[j]
        /\ \A i \in 1..(j - 1) : ka[i] = kb[i]

\* np.lexsort(keys): the last key is the primary one.  ka, kb are the key
\* values of two rows, in the order the keys are passed.
LexLess(ka, kb) ==
    \E j \in 1..Len(ka) :
        /\ ka[j] < kb[j]
        /\ \A i \in (j + 1)..Len(ka) : ka[i] = kb[i]

\* The keys in column order: column 0 first, then columns 1..dim
LexsortKeys_BatchIdFirst(row, d) == [k \in 1..(d + 1) |-> row[k]]

\* The keys split passes to lexsort for one row: columns 1..dim, then column 0
LexsortKeys(row, d) == [k \in 1..(d + 1) |-> IF k <= d THEN row[k + 1] ELSE row[1]]

\* np.lexsort as a stable sort: position of row i among the sorted rows,
\* and the permutation (1-based row positions) that sorts them.
lexsort(keys) ==
    LET N == Len(keys)
        rank(i) == Cardinality({j \in 1..N :
                        \/ LexLess(keys[j], keys[i])
                        \/ (keys[j] = keys[i] /\ j < i)}) + 1
    IN  [p \in 1..N |-> CHOOSE i \in 1..N : rank(i) = p]

SplitAsserts(self, vox) == \A r \in 1..Len(vox) : Len(vox[r]) = self.dim + 1

split(self, vox) ==
    LET nv == [r \in 1..Len(vox) |-> SplitLoop(self, vox[r][1], Tail(vox[r]), 0, 0, Tail(vox[r]))]
    IN  [new_voxels |-> nv,
         perm |-> lexsort([r \in 1..Len(vox) |-> LexsortKeys(nv[r], self.dim)]),
         masks |-> [v \in 1..Len(self.combo) |->
                      [r \in 1..Len(vox) |-> VolumeMask(self, self.combo[v], Tail(vox[r]))]]]

----------------------------------------------------------------------------
(* CollateSparse                                                            *)
(*                                                                          *)
(* A value of an event dictionary is a record [kind, d, coords, feats,      *)
(* depths, arr]:                                                            *)
(*   "sparse"     a tuple (coords, feats) of 2-D arrays, coords of width d  *)
(*   "multidepth" a non-empty list of such tuples (depths)                  *)
(*   "array1d"    a 1-D array (arr)                                         *)
(*   "array2d"    a 2-D array (arr, a sequence of rows)                     *)
(*   "opaque"     anything else (here a Python scalar)                      *)
(* An event is a function from its keys to values, a batch a sequence of    *)
(* events; batch ids are positions in the batch, counted from 0.            *)

Pair(d, coords, feats) == [d |-> d, coords |-> coords, feats |-> feats]
Sparse(d, coords, feats) ==
    [kind |-> "sparse", d |-> d, coords |-> coords, feats |-> feats,
     depths |-> <<>>, arr |-> <<>>]
MultiDepth(depths) ==
    [kind |-> "multidepth", d |-> 0, coords |-> <<>>, feats |-> <<>>,
     depths |-> depths, arr |-> <<>>]
Array1d(a) ==
    [kind |-> "array1d", d |-> 0, coords |-> <<>>, feats |-> <<>>, depths |-> <<>>, arr |-> a]
Array2d(a) ==
    [kind |-> "array2d", d |-> 0, coords |-> <<>>, feats |-> <<>>, depths |-> <<>>, arr |-> a]
Opaque ==
    [kind |-> "opaque", d |-> 0, coords |-> <<>>, feats |-> <<>>, depths |-> <<>>, arr |-> <<>>]

\* np.concatenate(arrays, axis=0)
RECURSIVE concat(_)
concat(arrays) == IF arrays = <<>> THEN <<>> ELSE Head(arrays) \o concat(Tail(arrays))

\* The element of a one-element set; {f(x) : x \in {e}} computes e once
Only(S) == CHOOSE v \in S : TRUE

\* a[perm]: the rows of a in the order of perm (1-based positions)
Take(a, p) == [i \in 1..Len(p) |-> a[p[i]]]

\* The branch CollateSparse takes for a key, decided on the first event alone
Branch(b, key) ==
    IF key = "particles_label" THEN "particles_label"
    ELSE b[1][key].kind

\* Whether the code of a branch raises on a sample of the given kind.  The
\* array branches hand the sample to numpy: a (coords, feats) tuple in the 1-D
\* branch and a list of such tuples in the 2-D branch pass where numpy makes
\* an object array of ragged input (ragged_ok) and raise where it refuses to.
SampleRaises(branch, kind, ragged_ok) ==
    CASE branch = "particles_label" -> kind # "sparse"
      [] branch = "sparse" -> kind # "sparse"
      [] branch = "array1d" -> ~(kind = "array1d" \/ (kind = "sparse" /\ ragged_ok))
      [] branch = "array2d" -> ~(kind = "array2d" \/ (kind = "multidepth" /\ ragged_ok))
      [] branch = "multidepth" -> kind # "multidepth"
      [] OTHER -> FALSE

\* The outcomes numpy can have on a batch: both where an array branch meets a
\* tuple or a list of tuples, one otherwise
RaggedOutcomes(b) ==
    IF \E e \in 1..Len(b) : \E key \in DOMAIN b[1] :
          /\ b[1][key].kind \in {"array1d", "array2d"}
          /\ b[e][key].kind \in {"sparse", "multidepth"}
    THEN BOOLEAN ELSE {FALSE}

\* The (batch_id, coords) block and the feature block of one list of tuples
BatchedVoxels(pairs) ==
    concat([e \in 1..Len(pairs) |->
               [r \in 1..Len(pairs[e].coords) |-> <<e - 1>> \o pairs[e].coords[r]]])
BatchedData(pairs) == concat([e \in 1..Len(pairs) |-> pairs[e].feats])

\* The paired branch without data = data[perm]
CollatePairs_DataNotPermuted(vb, split_boundaries, pairs) ==
    LET vox == BatchedVoxels(pairs)
        data == BatchedData(pairs)
    IN  IF ~split_boundaries
        THEN [raised |-> FALSE, value |-> [r \in 1..Len(vox) |-> vox[r] \o data[r]]]
        ELSE IF vb.dim # pairs[1].d
        THEN [raised |-> TRUE, value |-> <<>>]
        ELSE [raised |-> FALSE,
              value |-> Only({[r \in 1..Len(vox) |-> Take(res.new_voxels, res.perm)[r] \o data[r]]
                              : res \in {split(vb, vox)}})]

\* The paired coordinate/feature branch, on the tuples of the events
CollatePairs(vb, split_boundaries, pairs) ==
    LET vox == BatchedVoxels(pairs)
        data == BatchedData(pairs)
    IN  IF ~split_boundaries
        THEN [raised |-> FALSE, value |-> [r \in 1..Len(vox) |-> vox[r] \o data[r]]]
        ELSE IF vb.dim # pairs[1].d
        THEN [raised |-> TRUE, value |-> <<>>]
        ELSE [raised |-> FALSE,
              value |-> Only({[r \in 1..Len(vox) |->
                                  Take(res.new_voxels, res.perm)[r] \o Take(data, res.perm)[r]]
                              : res \in {split(vb, vox)}})]

\* The branch of the key particles_label without coords = coords[perm]
CollateParticlesLabel_NotPermuted(vb, split_boundaries, pairs) ==
    LET d == pairs[1].d
        coords == concat([e \in 1..Len(pairs) |->
                     [r \in 1..Len(pairs[e].coords) |->
                         <<e - 1>> \o pairs[e].coords[r] \o pairs[e].feats[r]]])
    IN  IF ~split_boundaries
        THEN [raised |-> FALSE, value |-> coords]
        ELSE IF vb.dim # d
        THEN [raised |-> TRUE, value |-> <<>>]
        ELSE LET assigned(res) == [r \in 1..Len(coords) |->
                                 res.new_voxels[r] \o SubSeq(coords[r], d + 2, Len(coords[r]))]
             IN  [raised |-> FALSE,
                  value |-> Only({assigned(res) : res \in
                      {split(vb, [r \in 1..Len(coords) |-> SubSeq(coords[r], 1, d + 1)])}})]

\* The branch of the key particles_label
CollateParticlesLabel(vb, split_boundaries, pairs) ==
    LET d == pairs[1].d
        coords == concat([e \in 1..Len(pairs) |->
                     [r \in 1..Len(pairs[e].coords) |->
                         <<e - 1>> \o pairs[e].coords[r] \o pairs[e].feats[r]]])
    IN  IF ~split_boundaries
        THEN [raised |-> FALSE, value |-> coords]
        ELSE IF vb.dim # d
        THEN [raised |-> TRUE, value |-> <<>>]
        ELSE LET assigned(res) == [r \in 1..Len(coords) |->
                                 res.new_voxels[r] \o SubSeq(coords[r], d + 2, Len(coords[r]))]
             IN  [raised |-> FALSE,
                  value |-> Only({Take(assigned(res), res.perm) : res \in
                      {split(vb, [r \in 1..Len(coords) |-> SubSeq(coords[r], 1, d + 1)])}})]

\* The multi-depth branch with the rows of every depth put in lexsort order
CollateMultiDepth_Sorted(values) ==
    [raised |-> FALSE,
     value |-> [depth \in 1..Len(values[1].depths) |->
                  LET pairs == [e \in 1..Len(values) |-> values[e].depths[depth]]
                      vox == BatchedVoxels(pairs)
                      data == BatchedData(pairs)
                      p == lexsort([r \in 1..Len(vox) |-> LexsortKeys(vox[r], pairs[1].d)])
                  IN  Take([r \in 1..Len(vox) |-> vox[r] \o data[r]], p)]]

\* The multi-depth branch: one batched array per depth of the first event
CollateMultiDepth(values) ==
    [raised |-> FALSE,
     value |-> [depth \in 1..Len(values[1].depths) |->
                  LET pairs == [e \in 1..Len(values) |-> values[e].depths[depth]]
                      vox == BatchedVoxels(pairs)
                      data == BatchedData(pairs)
                  IN  [r \in 1..Len(vox) |-> vox[r] \o data[r]]]]

\* The 1-D and 2-D array branches; the entries of an object array made of
\* tuples are written -1.
Collate1d(values) ==
    [raised |-> FALSE,
     value |-> concat([e \in 1..Len(values) |->
                  IF values[e].kind = "array1d"
                  THEN [i \in 1..Len(values[e].arr) |-> <<e - 1, values[e].arr[i]>>]
                  ELSE [i \in 1..2 |-> <<e - 1, -1>>]])]
Collate2d(values) ==
    [raised |-> FALSE,
     value |-> concat([e \in 1..Len(values) |->
                  IF values[e].kind = "array2d"
                  THEN [i \in 1..Len(values[e].arr) |-> <<e - 1>> \o values[e].arr[i]]
                  ELSE [i \in 1..Len(values[e].depths) |-> <<e - 1, -1, -1>>]])]

\* What CollateSparse stores for one key
CollateKey(vb, split_boundaries, b, key, ragged_ok) ==
    LET branch == Branch(b, key)
        values == [e \in 1..Len(b) |-> b[e][key]]
        pairs == [e \in 1..Len(b) |-> Pair(values[e].d, values[e].coords, values[e].feats)]
    IN  IF \E e \in 1..Len(b) : SampleRaises(branch, values[e].kind, ragged_ok)
        THEN [raised |-> TRUE, value |-> <<>>]
        ELSE CASE branch = "particles_label" -> CollateParticlesLabel(vb, split_boundaries, pairs)
               [] branch = "sparse" -> CollatePairs(vb, split_boundaries, pairs)
               [] branch = "array1d" -> Collate1d(values)
               [] branch = "array2d" -> Collate2d(values)
               [] branch = "multidepth" -> CollateMultiDepth(values)
               [] OTHER -> [raised |-> FALSE, value |-> values]

\* batch[0].keys(): the empty dictionary stands in for the IndexError
\* variant that returns no keys
FirstKeys_EmptyBatchNoKeys(b) ==
    [raised |-> FALSE, keys |-> IF b = <<>> THEN {} ELSE DOMAIN b[1]]

\* batch[0].keys(): IndexError on an empty batch
FirstKeys(b) ==
    IF b = <<>> THEN [raised |-> TRUE, keys |-> {}]
    ELSE [raised |-> FALSE, keys |-> DOMAIN b[1]]

\* vb = VolumeBoundaries(kwargs['boundaries']) if split_boundaries else None
Splitter(kw) ==
    IF kw.has THEN VolumeBoundariesInit(kw.boundaries)
    ELSE [raised |-> FALSE, dim |-> 0, boundaries |-> <<>>, combo |-> <<>>, shifts |-> <<>>]

\* CollateSparse(batch, **kw) as a whole, vb being the splitter it has built
\* (if any): the caller's keyword arguments afterwards, and the outcome.
CollateSparse(b, kw, vb, ragged_ok) ==
    LET kw_after == IF kw.has THEN [kw EXCEPT !.boundaries = vb.boundaries] ELSE kw
        first == FirstKeys(b)
        out == [key \in first.keys |-> CollateKey(vb, kw.has, b, key, ragged_ok)]
    IN  IF vb.raised \/ first.raised \/ \E key \in first.keys : out[key].raised
        THEN [raised |-> TRUE, vb |-> vb, kwargs |-> kw_after, result |-> <<>>]
        ELSE [raised |-> FALSE, vb |-> vb, kwargs |-> kw_after,
              result |-> [key \in first.keys |-> out[key].value]]

----------------------------------------------------------------------------
(* The state machine: a VolumeBoundaries object and the calls made on it *)

Self == [dim |-> dim, boundaries |-> boundaries, combo |-> combo, shifts |-> shifts]

\* Inputs offered to the methods of an object of dimension d
CoordArrays(d) == {<<c>> : c \in [1..d -> CoordValues]}
Rows(d) == {<<b>> \o c : b \in BatchIds, c \in [1..d -> CoordValues]}
VoxelArrays(d) == UNION {[1..k -> Rows(d)] : k \in 0..MaxRows}

\* State right after VolumeBoundaries(definitions) returned
Constructed(definitions) ==
    /\ \A i \in 1..Len(definitions) : SanityCheck(definitions[i])
    /\ dim = Len(definitions)
    /\ boundaries = [i \in 1..Len(definitions) |-> Normalise(definitions[i])]
    /\ combo = MeshgridRows(all_index(boundaries))
    /\ shifts = Shifts(boundaries)
    /\ pc = "idle"
    /\ raised = FALSE
    /\ voxels = <<>>
    /\ volume = 0
    /\ masks = <<>>
    /\ new_voxels = <<>>
    /\ perm = <<>>
    /\ ret = <<>>
    /\ batch = <<>>
    /\ kwargs = [has |-> TRUE, boundaries |-> boundaries]
    /\ result = <<>>

Init == \E definitions \in Definitions : Constructed(definitions)

InitGeometry == \E definitions \in GeometryDefinitions : Constructed(definitions)

NumVolumes ==
    /\ pc = "idle"
    /\ pc' = "num_volumes"
    /\ raised' = FALSE
    /\ ret' = <<num_volumes(Self)>>
    /\ voxels' = <<>> /\ volume' = 0 /\ masks' = <<>> /\ new_voxels' = <<>> /\ perm' = <<>>
    /\ UNCHANGED <<dim, boundaries, combo, shifts, batch, kwargs, result>>

VirtualBatchIds ==
    /\ pc = "idle"
    /\ \E entry \in BatchIds :
        /\ pc' = "virtual_batch_ids"
        /\ raised' = FALSE
        /\ volume' = entry
        /\ ret' = virtual_batch_ids(Self, entry)
        /\ voxels' = <<>> /\ masks' = <<>> /\ new_voxels' = <<>> /\ perm' = <<>>
        /\ UNCHANGED <<dim, boundaries, combo, shifts, batch, kwargs, result>>

Translate ==
    /\ pc = "idle"
    /\ \E coords \in CoordArrays(dim), vol \in 0..num_volumes(Self) :
        /\ pc' = "translate"
        /\ voxels' = coords
        /\ volume' = vol
        /\ raised' = ~TranslateAsserts(Self, coords, vol)
        /\ new_voxels' = IF raised' THEN <<>> ELSE translate(Self, coords, vol)
        /\ masks' = <<>> /\ perm' = <<>> /\ ret' = <<>>
        /\ UNCHANGED <<dim, boundaries, combo, shifts, batch, kwargs, result>>

Untranslate ==
    /\ pc = "idle"
    /\ \E coords \in CoordArrays(dim), vol \in 0..num_volumes(Self) :
        /\ pc' = "untranslate"
        /\ voxels' = coords
        /\ volume' = vol
        /\ raised' = ~TranslateAsserts(Self, coords, vol)
        /\ new_voxels' = IF raised' THEN <<>> ELSE untranslate(Self, coords, vol)
        /\ masks' = <<>> /\ perm' = <<>> /\ ret' = <<>>
        /\ UNCHANGED <<dim, boundaries, combo, shifts, batch, kwargs, result>>

Split ==
    /\ pc = "idle"
    /\ \E vox \in VoxelArrays(dim) :
        /\ pc' = "split"
        /\ voxels' = vox
        /\ volume' = 0
        /\ raised' = ~SplitAsserts(Self, vox)
        /\ IF raised'
           THEN new_voxels' = <<>> /\ perm' = <<>> /\ masks' = <<>>
           ELSE \E res \in {split(Self, vox)} :
                   /\ new_voxels' = res.new_voxels
                   /\ perm' = res.perm
                   /\ masks' = res.masks
        /\ ret' = <<>>
        /\ UNCHANGED <<dim, boundaries, combo, shifts, batch, kwargs, result>>

\* The caller has taken the result of the call; the object is unchanged
Return ==
    /\ pc # "idle"
    /\ pc' = "idle"
    /\ raised' = FALSE
    /\ voxels' = <<>> /\ volume' = 0 /\ masks' = <<>> /\ new_voxels' = <<>>
    /\ perm' = <<>> /\ ret' = <<>>
    /\ UNCHANGED <<dim, boundaries, combo, shifts, batch, kwargs, result>>

Next == NumVolumes \/ VirtualBatchIds \/ Translate \/ Untranslate \/ Split \/ Return

Spec == Init /\ [][Next]_vars

\* The constructor alone, on definitions that pass and that fail its sanity check
InitConstruct ==
    /\ kwargs \in [has : {TRUE}, boundaries : ConstructDefinitions]
    /\ pc = "new"
    /\ dim = 0 /\ boundaries = <<>> /\ combo = <<>> /\ shifts = <<>>
    /\ raised = FALSE
    /\ voxels = <<>> /\ volume = 0 /\ masks = <<>> /\ new_voxels = <<>>
    /\ perm = <<>> /\ ret = <<>>
    /\ batch = <<>> /\ result = <<>>

Construct ==
    /\ pc = "new"
    /\ pc' = "__init__"
    /\ \E self \in {VolumeBoundariesInit(kwargs.boundaries)} :
          /\ raised' = self.raised
          /\ dim' = self.dim
          /\ boundaries' = self.boundaries
          /\ kwargs' = [kwargs EXCEPT !.boundaries = self.boundaries]
          /\ combo' = self.combo
          /\ shifts' = self.shifts
    /\ UNCHANGED <<voxels, volume, masks, new_voxels, perm, ret, batch, result>>

NextConstruct == Construct

SpecConstruct == InitConstruct /\ [][NextConstruct]_vars

----------------------------------------------------------------------------
(* The state machine of one CollateSparse call *)

\* Feature rows: one column, a value that names the event and the row
Features(e, coords) == [r \in 1..Len(coords) |-> <<10 * e + r>>]

\* An event of the dataset with the keys input_data (coords, feats),
\* particles_label (coords, feats) and multiscale (a list of two tuples, the
\* second one holding the first voxel only)
VoxelEvent(d, e, coords) ==
    LET feats == Features(e, coords)
        k == IF coords = <<>> THEN 0 ELSE 1
    IN  [input_data |-> Sparse(d, coords, feats),
         particles_label |-> Sparse(d, coords, feats),
         multiscale |-> MultiDepth(<<Pair(d, coords, feats),
                                     Pair(d, SubSeq(coords, 1, k), SubSeq(feats, 1, k))>>)]

\* The coordinate arrays of n_events events holding at most max_rows rows
RECURSIVE EventCoords(_, _, _)
EventCoords(d, n_events, max_rows) ==
    IF n_events = 0 THEN {<<>>}
    ELSE UNION {{<<c>> \o rest : c \in [1..n -> [1..d -> CoordValues]],
                                 rest \in EventCoords(d, n_events - 1, max_rows - n)}
                : n \in 0..max_rows}

VoxelBatches(d) ==
    {[e \in 1..Len(c) |-> VoxelEvent(d, e, c[e])] :
        c \in UNION {EventCoords(d, n, MaxRows) : n \in 0..Cardinality(BatchIds)}}

\* Events with the single key x, of every shape kind
Kinds == {"sparse", "multidepth", "array1d", "array2d", "opaque"}
KindValue(d, kind) ==
    LET coords == <<[i \in 1..d |-> 1]>>
    IN  CASE kind = "sparse" -> Sparse(d, coords, <<<<9>>>>)
          [] kind = "multidepth" -> MultiDepth(<<Pair(d, coords, <<<<9>>>>)>>)
          [] kind = "array1d" -> Array1d(<<7, 8>>)
          [] kind = "array2d" -> Array2d(<<<<7, 8>>>>)
          [] OTHER -> Opaque
KindBatches(d) ==
    {[e \in 1..Len(k) |-> [x |-> KindValue(d, k[e])]] :
        k \in UNION {[1..n -> Kinds] : n \in 1..Cardinality(BatchIds)}}

\* The keyword arguments: no boundaries, or boundaries for d dimensions: none
\* in any dimension, two in the first dimension, two in every dimension
CollateKwargs(d) ==
    {[has |-> FALSE, boundaries |-> <<>>]}
        \cup {[has |-> TRUE, boundaries |-> definitions] :
                definitions \in {[i \in 1..d |-> None],
                                 [i \in 1..d |-> IF i = 1 THEN List(<<5, 3>>) ELSE None],
                                 [i \in 1..d |-> List(<<5, 3>>)]}}

InitCollate ==
    /\ \E d \in 1..MaxDim :
          /\ batch \in VoxelBatches(d) \cup KindBatches(d)
          /\ kwargs \in CollateKwargs(d)
    /\ dim = 0
    /\ boundaries = <<>>
    /\ combo = <<>>
    /\ shifts = <<>>
    /\ pc = "idle"
    /\ raised = FALSE
    /\ voxels = <<>>
    /\ volume = 0
    /\ masks = <<>>
    /\ new_voxels = <<>>
    /\ perm = <<>>
    /\ ret = <<>>
    /\ result = <<>>

CallCollateSparse ==
    /\ pc = "idle"
    /\ \E ragged_ok \in RaggedOutcomes(batch) :
          \E vb \in {Splitter(kwargs)} : \E call \in {CollateSparse(batch, kwargs, vb, ragged_ok)} :
             /\ raised' = call.raised
             /\ result' = call.result
             /\ kwargs' = call.kwargs
             /\ dim' = call.vb.dim
             /\ boundaries' = call.vb.boundaries
             /\ combo' = call.vb.combo
             /\ shifts' = call.vb.shifts
    /\ pc' = "CollateSparse"
    /\ UNCHANGED <<batch, voxels, volume, masks, new_voxels, perm, ret>>

NextCollate == CallCollateSparse

SpecCollate == InitCollate /\ [][NextCollate]_vars

\* The geometry methods alone, on the wider set of configurations
NextGeometry == NumVolumes \/ VirtualBatchIds \/ Translate \/ Untranslate \/ Return

SpecGeometry == InitGeometry /\ [][NextGeometry]_vars

----------------------------------------------------------------------------
(* Vocabulary of the claims *)

AllNone == \A n \in 1..dim : boundaries[n] = None

\* The bin of a dimension with boundaries b that contains coordinate x:
\* bin k is [cuts[k-1], cuts[k]), bin 0 lies below the first cut and the last
\* bin at and above the last one.
BinOf(b, x) ==
    IF b = None THEN 0
    ELSE Cardinality({i \in 1..Len(b.val) : Ge(x, b.val[i])})

\* The shift stated for bin k: 0 for bin 0, the cut below bin k otherwise
StatedShift(b, k) == IF k = 0 THEN 0 ELSE b.val[k]

\* The index (0-based) in the volume table of the sub-volume containing x
VolumeOf(x) ==
    CHOOSE v \in 0..(Len(combo) - 1) :
        combo[v + 1] = [n \in 1..dim |-> BinOf(boundaries[n], x[n])]

\* Tuples compared lexicographically, first component most significant
TupleLeq(a, b) ==
    \/ a = b
    \/ \E j \in 1..Len(a) : a[j] < b[j] /\ \A i \in 1..(j - 1) : a[i] = b[i]

\* The rows of new_voxels in the order perm puts them
Permuted == [p \in 1..Len(perm) |-> new_voxels[perm[p]]]

IsPermutation(q, N) == Len(q) = N /\ {q[p] : p \in 1..Len(q)} = 1..N

----------------------------------------------------------------------------
(* C1: in split, every input voxel matches the conjunction mask of exactly  *)
(* one sub-volume: the masks partition the voxels.                         *)
C1_MasksPartition ==
    pc = "split" =>
        \A r \in 1..Len(voxels) :
            Cardinality({v \in 1..Len(masks) : masks[v][r]}) = 1

(* C2 as stated: perm sorts the rows with the last spatial coordinate as    *)
(* the most significant key and the virtual batch id as the least          *)
(* significant one.                                                        *)
C2_BatchIdLeastSignificant ==
    pc = "split" =>
        \A p, q \in 1..Len(perm) :
            p < q =>
                TupleLeq([k \in 1..(dim + 1) |-> Permuted[p][IF k <= dim THEN dim + 2 - k ELSE 1]],
                         [k \in 1..(dim + 1) |-> Permuted[q][IF k <= dim THEN dim + 2 - k ELSE 1]])

(* C2 amended: perm is a permutation of the rows, and of two rows the one   *)
(* placed first is the smaller at the most significant key where they      *)
(* differ, the keys being, from most to least significant: the virtual     *)
(* batch id, the last spatial coordinate, ..., the first spatial           *)
(* coordinate.                                                             *)
C2_BatchIdMostSignificant ==
    pc = "split" =>
        /\ IsPermutation(perm, Len(new_voxels))
        /\ \A p, q \in 1..Len(perm) :
              p < q =>
                  LET a == new_voxels[perm[p]]
                      b == new_voxels[perm[q]]
                      differ == {k \in 1..(dim + 1) : a[k] # b[k]}
                      \* column 1 (batch id) ranks above every coordinate column,
                      \* a later coordinate column above an earlier one
                      top == CHOOSE k \in differ :
                                 \A l \in differ : k = 1 \/ (l # 1 /\ l <= k)
                  IN  differ # {} => a[top] < b[top]

C2_Witness ==
    /\ pc = "split"
    /\ Len(new_voxels) = 2
    /\ new_voxels[1][1] < new_voxels[2][1]
    /\ new_voxels[1][dim + 1] > new_voxels[2][dim + 1]
    /\ perm = <<1, 2>>

(* C3: after the permutation is applied, the rows are ordered by batch id,  *)
(* then z, then y, then x: the tuple (virtual batch id, coord_dim, ...,     *)
(* coord_1) of consecutive rows is non-decreasing.                         *)
C3_SortedBatchZYX ==
    pc = "split" =>
        \A p \in 1..(Len(perm) - 1) :
            TupleLeq([k \in 1..(dim + 1) |-> Permuted[p][IF k = 1 THEN 1 ELSE dim + 3 - k]],
                     [k \in 1..(dim + 1) |-> Permuted[p + 1][IF k = 1 THEN 1 ELSE dim + 3 - k]])

C3_Witness ==
    /\ pc = "split"
    /\ dim >= 2
    /\ Len(new_voxels) = 2
    /\ new_voxels[1][1] = new_voxels[2][1]
    /\ new_voxels[1][2] < new_voxels[2][2]
    /\ new_voxels[1][dim + 1] > new_voxels[2][dim + 1]
    /\ perm = <<2, 1>>

(* C4: the virtual batch id of every row is v + b * num_volumes, where b is *)
(* the original batch id and v the index of the sub-volume whose bins      *)
(* contain the row's coordinates.                                          *)
C4_VirtualBatchId ==
    pc = "split" =>
        \A r \in 1..Len(voxels) :
            new_voxels[r][1] = VolumeOf(Tail(voxels[r])) + voxels[r][1] * num_volumes(Self)

(* C5: every output coordinate is the input coordinate minus the shift of   *)
(* the one bin containing it (0 for bin 0, cuts[k-1] for bin k), applied   *)
(* once.  Both sides are in half units.                                    *)
C5_ShiftedOnce ==
    pc = "split" =>
        \A r \in 1..Len(voxels) : \A n \in 1..dim :
            2 * new_voxels[r][n + 1] =
                2 * voxels[r][n + 1]
                - StatedShift(boundaries[n], BinOf(boundaries[n], voxels[r][n + 1]))

(* C6: translate undoes split: translating the split coordinates of a row   *)
(* with the sub-volume split assigned to it gives back the row's original  *)
(* coordinates.                                                            *)
C6_TranslateInvertsSplit ==
    pc = "split" =>
        \A r \in 1..Len(voxels) :
            translate(Self, <<Tail(new_voxels[r])>>,
                      new_voxels[r][1] % num_volumes(Self)) = <<Tail(voxels[r])>>

(* C7: for every coordinate array x and every volume v in [0, num_volumes), *)
(* translate(untranslate(x, v), v) = x and untranslate(translate(x, v), v)  *)
(* = x.                                                                    *)
C7_RoundTrip ==
    /\ (pc = "untranslate" /\ ~raised) => translate(Self, new_voxels, volume) = voxels
    /\ (pc = "translate" /\ ~raised) => untranslate(Self, new_voxels, volume) = voxels

C7_Witness ==
    /\ pc = "untranslate"
    /\ ~raised
    /\ volume > 0
    /\ \A n \in 1..dim : new_voxels[1][n] # voxels[1][n]

(* C8: the volume table holds every tuple of per-dimension bin indices      *)
(* (0..len(cuts_i) in dimension i) exactly once, so num_volumes() is the   *)
(* product of (len(cuts_i) + 1), and 1 when no dimension has boundaries.   *)
C8_VolumeTable ==
    LET nb == [n \in 1..dim |-> IF boundaries[n] = None THEN 0 ELSE Len(boundaries[n].val)]
        tuples == {t \in [1..dim -> 0..MaxCuts] : \A n \in 1..dim : t[n] <= nb[n]}
    IN  /\ \A t \in tuples : Cardinality({v \in 1..Len(combo) : combo[v] = t}) = 1
        /\ \A v \in 1..Len(combo) : combo[v] \in tuples
        /\ pc = "num_volumes" =>
              /\ ret = <<Prod([n \in 1..dim |-> nb[n] + 1])>>
              /\ AllNone => ret = <<1>>

C8_Witness ==
    /\ pc = "num_volumes"
    /\ dim >= 2
    /\ \A n \in 1..dim : boundaries[n] # None /\ Len(boundaries[n].val) = MaxCuts
    /\ ret = <<Prod([n \in 1..dim |-> MaxCuts + 1])>>

(* C9: virtual_batch_ids(e) returns exactly num_volumes() contiguous        *)
(* integers starting at e * num_volumes(), and the ranges of two distinct  *)
(* event indices are disjoint.                                             *)
C9_VirtualBatchIds ==
    /\ pc = "virtual_batch_ids" =>
          /\ Len(ret) = num_volumes(Self)
          /\ \A i \in 1..Len(ret) : ret[i] = volume * num_volumes(Self) + (i - 1)
    /\ \A e1, e2 \in BatchIds :
          e1 # e2 =>
              {virtual_batch_ids(Self, e1)[i] : i \in 1..num_volumes(Self)}
              \cap {virtual_batch_ids(Self, e2)[i] : i \in 1..num_volumes(Self)} = {}

C9_Witness ==
    /\ pc = "virtual_batch_ids"
    /\ volume = 1
    /\ Len(ret) >= 2
    /\ ret[1] = Len(ret)

(* C10: when no dimension has a boundary, split returns the input           *)
(* coordinates unchanged and the input batch ids as batch-id column.       *)
C10_NoBoundaryIdentity ==
    (pc = "split" /\ AllNone) =>
        \A r \in 1..Len(voxels) :
            /\ Tail(new_voxels[r]) = Tail(voxels[r])
            /\ new_voxels[r][1] = voxels[r][1]

C10_Witness ==
    /\ pc = "split"
    /\ AllNone
    /\ Len(voxels) >= 1
    /\ voxels[1][1] = 1
    /\ new_voxels = voxels

(* C13: constructing VolumeBoundaries fails, and builds no geometry, exactly  *)
(* when some element of definitions is neither the no-boundary sentinel     *)
(* (None or 'None') nor a non-empty list; otherwise it succeeds and the     *)
(* geometry (volume table, one shift list per dimension) is built.          *)
C13_ConstructorValidates ==
    [][pc' = "__init__" =>
          LET d == kwargs.boundaries
              sentinel(b) == b = None \/ b = StrNone
              cuts(b) == b.kind = "list" /\ b.val # <<>>
          IN  /\ raised' <=> \E i \in 1..Len(d) : ~(sentinel(d[i]) \/ cuts(d[i]))
              /\ raised' => (combo' = <<>> /\ shifts' = <<>>)
              /\ ~raised' => (Len(combo') >= 1 /\ Len(shifts') = Len(d))]_vars

C13_Witness ==
    /\ pc = "__init__"
    /\ raised
    /\ dim = 2
    /\ kwargs.boundaries[1].kind = "list"
    /\ kwargs.boundaries[2] \in {List(<<>>), Float(3)}
    /\ combo = <<>>

----------------------------------------------------------------------------
(* Claims about CollateSparse *)

\* A CollateSparse call has returned a result for a batch carrying the key
Collated(key) ==
    /\ pc = "CollateSparse"
    /\ ~raised
    /\ batch # <<>>
    /\ key \in DOMAIN batch[1]

\* What a (batch id, coordinates) row becomes in the output: split's image of
\* the row when boundaries are configured, the row itself when not
RowImage(row) == IF kwargs.has THEN split(Self, <<row>>).new_voxels[1] ELSE row

\* C11: for a paired coordinate/feature key the output has as many rows as
\* the events have voxels together and 1 + dim + F columns, and every input
\* voxel is found in an output row (batch id and coordinates as split leaves
\* them, or as given when no boundaries are configured) next to the feature
\* row that came with it.
C11_PairsInLockstep ==
    Collated("input_data") =>
        LET out == result.input_data
            value(e) == batch[e].input_data
        IN  /\ Len(out) = Len(concat([e \in 1..Len(batch) |-> value(e).coords]))
            /\ \A r \in 1..Len(out) : Len(out[r]) = 1 + value(1).d + 1
            /\ \A e \in 1..Len(batch) : \A i \in 1..Len(value(e).coords) :
                  \E image \in {RowImage(<<e - 1>> \o value(e).coords[i])} :
                     \E r \in 1..Len(out) : out[r] = image \o value(e).feats[i]

\* C11 witness: boundaries are configured and the second voxel of the only
\* event comes out first, with its own feature row.
C11_Witness ==
    /\ Collated("input_data")
    /\ kwargs.has
    /\ Len(batch) = 1
    /\ Len(batch[1].input_data.coords) = 2
    /\ result.input_data[1][dim + 2] = batch[1].input_data.feats[2][1]

\* C12: a call on a batch in which, for some key, not all events hold a value
\* of the same shape kind ends in an error.
C12_MixedKindsRaise ==
    (/\ pc = "CollateSparse"
     /\ batch # <<>>
     /\ \E key \in DOMAIN batch[1] : \E e \in 1..Len(batch) :
           batch[e][key].kind # batch[1][key].kind)
        => raised

\* C14: a call on an empty batch ends in an error and leaves no result
\* dictionary.
C14_EmptyBatchRaises ==
    (pc = "CollateSparse" /\ batch = <<>>) => (raised /\ result = <<>>)

\* C14 witness: a call on an empty batch, with boundaries configured, has
\* ended in an error.
C14_Witness ==
    /\ pc = "CollateSparse"
    /\ batch = <<>>
    /\ kwargs.has
    /\ raised

\* C15: a CollateSparse call leaves its inputs as they were: the batch and
\* the boundaries configuration passed by the caller are the same after the
\* call as before it, and the calls on a splitter leave its boundaries,
\* volume table and shift table unchanged.
C15_InputsUnchanged ==
    [][/\ pc' = "CollateSparse" => (batch' = batch /\ kwargs' = kwargs)
       /\ pc' \in {"split", "translate", "untranslate"} =>
             UNCHANGED <<boundaries, combo, shifts>>]_vars

\* C16: for the key particles_label the output is the array the paired
\* coordinate/feature branch makes of the same per-event (coords, feats)
\* tuples, with and without boundaries.
C16_ParticlesLabelAsPairs ==
    Collated("particles_label") =>
        LET pairs == [e \in 1..Len(batch) |->
                        Pair(batch[e].particles_label.d, batch[e].particles_label.coords,
                             batch[e].particles_label.feats)]
        IN  result.particles_label = CollatePairs(Self, kwargs.has, pairs).value

\* C16 witness: boundaries are configured and the rows of particles_label
\* were reordered: the second voxel of the first event comes out first.
C16_Witness ==
    /\ Collated("particles_label")
    /\ kwargs.has
    /\ Len(batch[1].particles_label.coords) = 2
    /\ result.particles_label[1][dim + 2] = batch[1].particles_label.feats[2][1]

\* C17: for a multi-depth key the output does not depend on the boundaries:
\* at every depth the rows are the voxels of the events in concatenation
\* order, each with its event index in column 0, its coordinates as given
\* and its feature row.
C17_MultiDepthUnsplit ==
    Collated("multiscale") =>
        /\ Len(result.multiscale) = Len(batch[1].multiscale.depths)
        /\ \A depth \in 1..Len(result.multiscale) :
              result.multiscale[depth] =
                 concat([e \in 1..Len(batch) |->
                    LET pair == batch[e].multiscale.depths[depth]
                    IN  [i \in 1..Len(pair.coords) |->
                            <<e - 1>> \o pair.coords[i] \o pair.feats[i]]])

\* C17 witness: boundaries are configured, the sparse-pair key of the batch
\* was split and reordered (its first row lies in another volume than volume
\* 0 and is the second voxel of the event), and the multi-depth key still
\* has the first voxel first, under event index 0.
C17_Witness ==
    /\ Collated("multiscale")
    /\ kwargs.has
    /\ Len(batch) = 1
    /\ Len(batch[1].input_data.coords) = 2
    /\ result.input_data[1][dim + 2] = batch[1].input_data.feats[2][1]
    /\ \E r \in 1..2 : result.input_data[r][1] # 0
    /\ result.multiscale[1][1][1] = 0
    /\ result.multiscale[1][1][dim + 2] = batch[1].input_data.feats[1][1]

\* C18: split is injective on rows: two input rows that differ in batch id
\* or coordinates never come out with the same virtual batch id and the same
\* shifted coordinates.
C18_SplitInjective ==
    (pc = "split" /\ ~raised) =>
        \A r1, r2 \in 1..Len(voxels) :
           voxels[r1] # voxels[r2] => new_voxels[r1] # new_voxels[r2]

====
